---- MODULE Spec2Model ----
(***************************************************************************)
(* Model of app-final.py: the Streamlit "TEXT SCANNER" page.               *)
(*                                                                         *)
(*   get_tree_depth   (lines 18-36)   recursive depth of a parsed tree     *)
(*   get_agraph_data  (lines 39-70)   flattening of a tree into the node   *)
(*                                    and edge lists handed to agraph      *)
(*   the Analyze handler (lines 85-152): two POSTs to <api_url>/parse,     *)
(*                                    the scores and the two diagrams      *)
(*                                                                         *)
(* Python strings are sequences of one-character strings, so that          *)
(* concatenation, slicing, len(), str.upper() and str(int) are computed    *)
(* as Python computes them.  A dict is a function whose domain is the set  *)
(* of keys present; dict.get(key, default) is Get.  Python floats are      *)
(* IEEE-754 doubles: a 53-bit mantissa kept as a sequence of bits with a   *)
(* binary exponent.                                                        *)
(***************************************************************************)
EXTENDS Integers, Sequences, FiniteSets, TLC

VARIABLES
    \* ---- the Analyze handler (one script run per button press) ----
    pc,          \* position of the script run
    api_url,     \* sidebar text input (line 14)
    resp_ref,    \* response to the reference request (line 94)
    resp_comp,   \* response to the compared request (line 95)
    requests,    \* the POSTs sent during this run, in order
    core_calls,  \* the calls into get_tree_depth / get_agraph_data, in order
    errors,      \* st.error reports of this run
    success,     \* st.success shown (line 101)
    metrics,     \* the three st.metric values (lines 116-120), or NoMetrics
    score_branch,\* which branch of lines 107-110 computed match_score
    graphs,      \* the agraph diagrams drawn (lines 139, 147)
    \* ---- direct calls of the two core functions ----
    call,        \* position of the call sequence
    tree,        \* the LogicNode tree passed in
    prefix,      \* the prefix argument of get_agraph_data
    depth,       \* result of get_tree_depth(tree)
    graph,       \* lists filled by get_agraph_data(tree, [], [], prefix)
    tree2,       \* a second tree, flattened with prefix2
    prefix2,
    graph2,
    \* ---- the score of lines 107-110 on its own ----
    depth_ref,   \* get_tree_depth(data_ref), line 104
    depth_comp,  \* get_tree_depth(data_comp), line 105
    match_score  \* line 108 or 110, or NoScore before it is computed

handler_vars == <<pc, api_url, resp_ref, resp_comp, requests, core_calls,
                  errors, success, metrics, score_branch, graphs>>
call_vars == <<call, tree, prefix, depth, graph, tree2, prefix2, graph2,
               depth_ref, depth_comp, match_score>>
vars == <<pc, api_url, resp_ref, resp_comp, requests, core_calls,
          errors, success, metrics, score_branch, graphs,
          call, tree, prefix, depth, graph, tree2, prefix2, graph2,
          depth_ref, depth_comp, match_score>>

(***************************************************************************)
(* Python strings                                                          *)
(***************************************************************************)
Lower == <<"a","b","c","d","e","f","g","h","i","j","k","l","m",
           "n","o","p","q","r","s","t","u","v","w","x","y","z">>
Upper == <<"A","B","C","D","E","F","G","H","I","J","K","L","M",
           "N","O","P","Q","R","S","T","U","V","W","X","Y","Z">>
Digits == <<"0","1","2","3","4","5","6","7","8","9">>

S_leaf == <<"l","e","a","f">>
S_span == <<"s","p","a","n">>
S_ref == <<"r","e","f">>
S_comp == <<"c","o","m","p">>
S_0 == <<"0">>
S_us == <<"_">>
S_dots == <<".",".",".">>

\* str.upper(): every lower-case letter is replaced by its capital.
UpperChar(c) ==
    IF \E i \in DOMAIN Lower : Lower[i] = c
    THEN Upper[CHOOSE i \in DOMAIN Lower : Lower[i] = c]
    ELSE c

StrUpper(s) == [i \in DOMAIN s |-> UpperChar(s[i])]

\* str(n) for n >= 0, as an f-string formats an int: decimal, no padding.
RECURSIVE IntToStr(_)
IntToStr(n) ==
    IF n < 10 THEN <<Digits[n + 1]>>
    ELSE IntToStr(n \div 10) \o <<Digits[(n % 10) + 1]>>

\* s[:n]
Slice(s, n) == IF Len(s) <= n THEN s ELSE SubSeq(s, 1, n)

(***************************************************************************)
(* Python dicts and None                                                   *)
(***************************************************************************)
EmptyDict == [k \in {} |-> <<>>]

\* node.get(key, default)
Get(node, key, default) == IF key \in DOMAIN node THEN node[key] ELSE default

None == [is_none |-> TRUE]
Some(s) == [is_none |-> FALSE, str |-> s]

\* truth value of an optional string: None and "" are falsy
Truthy(v) == (~v.is_none) /\ Len(v.str) > 0

(***************************************************************************)
(* FUNCTION 1: get_tree_depth                                              *)
(***************************************************************************)
\* line 24 and line 28: a leaf, or a node without children
LeafDepthZero(node) == 0
LeafDepth(node) == 1

\* lines 33-34, a bug that keeps the depth of the child visited last
KeepLast(max_child_depth, d) == d
\* lines 33-34: if depth > max_child_depth: max_child_depth = depth
KeepDeeper(max_child_depth, d) ==
    IF d > max_child_depth THEN d ELSE max_child_depth

RECURSIVE get_tree_depth(_), MaxChildDepth(_, _, _)
get_tree_depth(node) ==
    \* node.get("type") is None when the key is missing, and None != "leaf"
    IF "type" \in DOMAIN node /\ node["type"] = S_leaf THEN LeafDepth(node)
    ELSE LET children == Get(node, "children", <<>>)
         IN IF Len(children) = 0 THEN LeafDepth(node)
            ELSE 1 + MaxChildDepth(children, 1, 0)

\* the for loop of lines 31-34, from the k-th child on
MaxChildDepth(children, k, max_child_depth) ==
    IF k > Len(children) THEN max_child_depth
    ELSE MaxChildDepth(children, k + 1,
                       KeepDeeper(max_child_depth, get_tree_depth(children[k])))

(***************************************************************************)
(* FUNCTION 2: get_agraph_data                                             *)
(***************************************************************************)
LeafColor == "#00C853"
InternalColor == "#2962FF"
EdgeColor == "#B0BEC5"
LeafSize == 25
InternalSize == 15
TruncLen == 15

\* line 42, a bug that leaves the prefix out of the id
IdWithoutPrefix(pfx, my_id_suffix) == S_us \o my_id_suffix
\* line 42: my_unique_id = f"{prefix}_{my_id_suffix}"
UniqueId(pfx, my_id_suffix) == pfx \o S_us \o my_id_suffix

\* line 69, a bug that joins suffix and index without the separator
ChildSuffixNoSep(my_id_suffix, index) == my_id_suffix \o IntToStr(index)
\* line 69, a bug that numbers the children from 1
ChildSuffixFromOne(my_id_suffix, index) ==
    my_id_suffix \o S_us \o IntToStr(index + 1)
\* line 69: child_suffix = f"{my_id_suffix}_{index}"
ChildSuffix(my_id_suffix, index) == my_id_suffix \o S_us \o IntToStr(index)

\* line 46, a bug that takes a node without a type for a leaf
NodeTypeDefaultLeaf(node) == Get(node, "type", S_leaf)
\* line 46: node_type = node.get("type", "span")
NodeType(node) == Get(node, "type", S_span)

\* line 45: relation = node.get("relation", "span").upper()
Relation(node) == StrUpper(Get(node, "relation", S_span))

\* line 51, a bug that cuts the text without marking the cut
LeafLabelNoMark(full_text) == Slice(full_text, TruncLen)
\* line 51: label = full_text[:15] + "..." if len(full_text) > 15 else full_text
LeafLabel(full_text) ==
    IF Len(full_text) > TruncLen THEN Slice(full_text, TruncLen) \o S_dots
    ELSE full_text

\* lines 45-59: Node(id=..., label=..., size=..., color=..., title=...)
VisualNode(node, my_unique_id) ==
    LET relation == Relation(node)
        is_leaf == NodeType(node) = S_leaf
    IN [id    |-> my_unique_id,
        label |-> IF is_leaf THEN LeafLabel(Get(node, "text", <<>>)) ELSE relation,
        size  |-> IF is_leaf THEN LeafSize ELSE InternalSize,
        color |-> IF is_leaf THEN LeafColor ELSE InternalColor,
        title |-> Get(node, "text", relation)]

\* line 63: Edge(source=parent_id, target=my_unique_id, color="#B0BEC5")
VisualEdge(parent_id, my_unique_id) ==
    [source |-> parent_id.str, target |-> my_unique_id, color |-> EdgeColor]

\* line 62, a bug that tests the prefix instead of the parent id
HasParentByPrefix(parent_id, pfx) == (~parent_id.is_none) /\ Len(pfx) > 0
\* line 62: if parent_id:
HasParent(parent_id, pfx) == Truthy(parent_id)

RECURSIVE get_agraph_data(_, _, _, _, _, _), VisitChildren(_, _, _, _, _, _, _)
\* The two lists are mutated in place by the code; here the call returns
\* them as they are when it ends.
get_agraph_data(node, nodes_list, edges_list, pfx, parent_id, my_id_suffix) ==
    LET my_unique_id == UniqueId(pfx, my_id_suffix)
        nodes1 == Append(nodes_list, VisualNode(node, my_unique_id))
        edges1 == IF HasParent(parent_id, pfx)
                  THEN Append(edges_list, VisualEdge(parent_id, my_unique_id))
                  ELSE edges_list
    IN VisitChildren(Get(node, "children", <<>>), 1, nodes1, edges1,
                     pfx, my_unique_id, my_id_suffix)

\* the for loop of lines 67-70, from the k-th child (index k - 1) on
VisitChildren(children, k, nodes_list, edges_list, pfx, my_unique_id, my_id_suffix) ==
    IF k > Len(children) THEN [nodes |-> nodes_list, edges |-> edges_list]
    ELSE LET r == get_agraph_data(children[k], nodes_list, edges_list, pfx,
                                  Some(my_unique_id),
                                  ChildSuffix(my_id_suffix, k - 1))
         IN VisitChildren(children, k + 1, r.nodes, r.edges,
                          pfx, my_unique_id, my_id_suffix)

\* get_agraph_data(node, nodes, edges, prefix=pfx) with nodes, edges = [], []
\* (lines 135-137, 143-145): parent_id=None, my_id_suffix="0"
Flatten(node, pfx) == get_agraph_data(node, <<>>, <<>>, pfx, None, S_0)

(***************************************************************************)
(* Python float arithmetic of line 108: int((depth_comp / depth_ref) * 100)*)
(* A double is [m |-> bits, e |-> k]: the integer whose binary digits are  *)
(* m (most significant first, at most 53 of them) times 2^k.               *)
(***************************************************************************)
MantissaBits == 53

\* 2^k by repeated squaring
RECURSIVE Pow2(_)
Pow2(k) ==
    IF k = 0 THEN 1
    ELSE LET h == Pow2(k \div 2)
         IN IF k % 2 = 1 THEN 2 * h * h ELSE h * h

\* 2^k modulo b by repeated squaring (b < 2^15, so no product overflows)
RECURSIVE PowMod2(_, _)
PowMod2(k, b) ==
    IF k = 0 THEN 1 % b
    ELSE LET h == PowMod2(k \div 2, b)
             sq == (h * h) % b
         IN IF k % 2 = 1 THEN (2 * sq) % b ELSE sq

\* the integer written by at most 30 binary digits
RECURSIVE BitsToInt(_)
BitsToInt(bits) ==
    IF Len(bits) = 0 THEN 0
    ELSE IF Len(bits) = 1 THEN bits[1]
    ELSE LET h == Len(bits) \div 2
         IN BitsToInt(SubSeq(bits, 1, h)) * Pow2(Len(bits) - h)
            + BitsToInt(SubSeq(bits, h + 1, Len(bits)))

\* n written with exactly `width` binary digits
IntToBits(n, width) == [i \in 1..width |-> (n \div Pow2(width - i)) % 2]

\* bits without its leading zeros (<<0>> for zero)
StripZeros(bits) ==
    IF \A i \in DOMAIN bits : bits[i] = 0 THEN <<0>>
    ELSE LET first == CHOOSE i \in DOMAIN bits :
                          bits[i] = 1 /\ \A j \in 1..(i - 1) : bits[j] = 0
         IN SubSeq(bits, first, Len(bits))

\* bits + 1, one digit longer when every bit is 1
IncBits(bits) ==
    IF \A i \in DOMAIN bits : bits[i] = 1
    THEN <<1>> \o [i \in DOMAIN bits |-> 0]
    ELSE LET last0 == CHOOSE i \in DOMAIN bits :
                          bits[i] = 0 /\ \A j \in (i + 1)..Len(bits) : bits[j] = 1
         IN [i \in DOMAIN bits |->
                IF i < last0 THEN bits[i] ELSE IF i = last0 THEN 1 ELSE 0]

\* Round-to-nearest, ties-to-even, of the integer `bits` followed by a
\* discarded part that is above half (up), exactly half (tie) or below.
RoundNearestEven(bits, e, up, tie) ==
    IF up \/ (tie /\ bits[Len(bits)] = 1)
    THEN LET inc == IncBits(bits)
         IN IF Len(inc) > Len(bits)
            THEN [m |-> SubSeq(inc, 1, Len(bits)), e |-> e + 1]
            ELSE [m |-> inc, e |-> e]
    ELSE [m |-> bits, e |-> e]

\* a / b scaled by a power of two into [1, 2): the exponent of the quotient
RECURSIVE Normalize(_, _, _)
Normalize(a, b, e) ==
    IF a < b THEN Normalize(2 * a, b, e - 1)
    ELSE IF a >= 2 * b THEN Normalize(a, 2 * b, e + 1)
    ELSE [a |-> a, b |-> b, e |-> e]

\* the remainder of a * 2^k divided by b
ShiftedRem(a, b, k) == ((a % b) * PowMod2(k, b)) % b

\* x / y for ints x >= 0, y > 0 (true division): the nearest double.
\* With a / b in [1, 2), the first binary digit is 1 and the i-th is the
\* integer part of 2 * ((a * 2^(i-2)) mod b) / b.
TrueDiv(x, y) ==
    IF x = 0 THEN [m |-> <<0>>, e |-> 0]
    ELSE LET n == Normalize(x, y, 0)
             bits == [i \in 1..MantissaBits |->
                         IF i = 1 THEN 1
                         ELSE (2 * ShiftedRem(n.a, n.b, i - 2)) \div n.b]
             rem == ShiftedRem(n.a, n.b, MantissaBits - 1)
         IN RoundNearestEven(bits, n.e - (MantissaBits - 1),
                             2 * rem > n.b, 2 * rem = n.b)

\* the exact product of the integer `bits` (at most 60 digits)
\* and an integer 0 <= k < 2^10, by long multiplication in three chunks
MulBits(bits, k) ==
    LET W == 20
        B == Pow2(W)
        padded == [i \in 1..(3 * W - Len(bits)) |-> 0] \o bits
        hi == BitsToInt(SubSeq(padded, 1, W)) * k
        mid == BitsToInt(SubSeq(padded, W + 1, 2 * W)) * k
        lo == BitsToInt(SubSeq(padded, 2 * W + 1, 3 * W)) * k
        mid_c == mid + lo \div B
        hi_c == hi + mid_c \div B
    IN StripZeros(IntToBits(hi_c, W + 10) \o IntToBits(mid_c % B, W)
                  \o IntToBits(lo % B, W))

\* f * k for a double f and a small int k: the nearest double to the product
FloatMul(f, k) ==
    LET p == MulBits(f.m, k)
        L == Len(p)
    IN IF L <= MantissaBits THEN [m |-> p, e |-> f.e]
       ELSE LET kept == SubSeq(p, 1, MantissaBits)
                lost == SubSeq(p, MantissaBits + 1, L)
                rest == \E j \in 2..Len(lost) : lost[j] = 1
            IN RoundNearestEven(kept, f.e + (L - MantissaBits),
                                lost[1] = 1 /\ rest, lost[1] = 1 /\ ~rest)

\* int(f) for a double 0 <= f < 2^30: the fraction is cut off
FloatToInt(f) ==
    IF f.e >= 0 THEN BitsToInt(f.m) * Pow2(f.e)
    ELSE IF Len(f.m) + f.e <= 0 THEN 0
    ELSE BitsToInt(SubSeq(f.m, 1, Len(f.m) + f.e))

Min(a, b) == IF a < b THEN a ELSE b

ScoreCap == 100
Percent == 100

\* lines 107-110
MatchScore(d_ref, d_comp) ==
    IF d_ref > 0
    THEN Min(ScoreCap, FloatToInt(FloatMul(TrueDiv(d_comp, d_ref), Percent)))
    ELSE 0

(***************************************************************************)
(* Input trees.  A parsed tree is whatever JSON object the service sends;  *)
(* the sets below bound it.  An option is <<>> (key missing) or <<v>>.     *)
(***************************************************************************)
MaxNodes == 3        \* every tree of up to MaxNodes nodes, every typing
MaxFan == 11         \* widest root: child indices 0 .. MaxFan - 1
MaxPairNodes == 3    \* trees flattened in pairs
MaxChain == 6        \* deepest tree the service returns to the handler
MaxDepth == 50       \* deepest pair of trees scored

S_cause == <<"c","a","u","s","e">>

TextOfLen(n) == [i \in 1..n |-> Lower[((i - 1) % 26) + 1]]

TypeOpts == {<<>>, <<S_leaf>>, <<S_span>>}
TextOpts == {<<>>} \cup {<<TextOfLen(n)>> : n \in {1, TruncLen, TruncLen + 1}}
RelationOpts == {<<>>, <<S_cause>>}

\* What the nodes of one tree carry besides type and children: the text,
\* the relation, and whether a node without children has "children": [].
Decos == [text : TextOpts, relation : RelationOpts, empty_children : BOOLEAN]
PlainDeco == [text |-> <<TextOfLen(1)>>, relation |-> <<S_cause>>,
              empty_children |-> TRUE]

Field(key, opt) == IF opt = <<>> THEN EmptyDict ELSE key :> opt[1]

MkNode(type, deco, kids) ==
    Field("type", type) @@ Field("text", deco.text)
    @@ Field("relation", deco.relation)
    @@ (IF kids # <<>> \/ deco.empty_children
        THEN "children" :> kids ELSE EmptyDict)

RECURSIVE TreesOfSize(_, _, _), ForestsOfSize(_, _, _)
\* the trees of exactly n nodes
TreesOfSize(n, types, deco) ==
    {MkNode(t, deco, f) : t \in types, f \in ForestsOfSize(n - 1, types, deco)}

\* the sequences of trees of n nodes in all
ForestsOfSize(n, types, deco) ==
    IF n = 0 THEN {<<>>}
    ELSE UNION {{<<t>> \o f : t \in TreesOfSize(k, types, deco),
                              f \in ForestsOfSize(n - k, types, deco)}
                : k \in 1..n}

\* a root with w children, the j-th (from 1) of which has a child of its own
FanTree(w, j, deco) ==
    MkNode(<<S_span>>, deco,
           [i \in 1..w |-> IF i = j
                           THEN MkNode(<<S_span>>, deco, <<MkNode(<<S_leaf>>, deco, <<>>)>>)
                           ELSE MkNode(<<S_leaf>>, deco, <<>>)])

\* a chain of n nodes: n - 1 relations above one leaf
RECURSIVE ChainTree(_)
ChainTree(n) ==
    IF n <= 1 THEN MkNode(<<S_leaf>>, PlainDeco, <<>>)
    ELSE MkNode(<<S_span>>, PlainDeco, <<ChainTree(n - 1)>>)

Trees ==
    UNION {UNION {TreesOfSize(n, TypeOpts, d) : n \in 1..MaxNodes}
           \cup {FanTree(w, j, d) : w \in 1..MaxFan, j \in 0..MaxFan}
           : d \in Decos}

PairTrees == UNION {TreesOfSize(n, {<<S_span>>}, PlainDeco) : n \in 1..MaxPairNodes}

Prefixes == {<<>>, S_ref}
PairPrefixes == {<<>>, <<"_","0">>, <<"a">>, <<"a","_","0">>,
                 <<"a","_","0","_","0">>, <<"b">>, S_ref, S_comp}

ParsedTrees == {ChainTree(n) : n \in 1..MaxChain}
               \cup {EmptyDict, MkNode(<<S_leaf>>, PlainDeco, <<ChainTree(2)>>)}

(***************************************************************************)
(* Direct calls of the core functions: a tree and a prefix are chosen,     *)
(* then get_tree_depth and get_agraph_data are applied to them.            *)
(***************************************************************************)
NoGraph == [nodes |-> <<>>, edges |-> <<>>]
NoMetrics == [shown |-> FALSE]
NoScore == "unset"
ScoreIdle == depth_ref = 0 /\ depth_comp = 0 /\ match_score = NoScore

HandlerIdle ==
    /\ pc = "idle" /\ api_url = <<>>
    /\ resp_ref = None /\ resp_comp = None
    /\ requests = <<>> /\ core_calls = <<>> /\ errors = <<>>
    /\ success = FALSE /\ metrics = NoMetrics /\ score_branch = "none"
    /\ graphs = <<>>

CoreInit ==
    /\ HandlerIdle
    /\ call = "start"
    /\ tree \in Trees /\ prefix \in Prefixes
    /\ depth = 0 /\ graph = NoGraph
    /\ tree2 = EmptyDict /\ prefix2 = <<>> /\ graph2 = NoGraph
    /\ ScoreIdle

CallDepth ==
    /\ call = "start"
    /\ depth' = get_tree_depth(tree)
    /\ call' = "depth"
    /\ UNCHANGED <<tree, prefix, graph, tree2, prefix2, graph2,
                   depth_ref, depth_comp, match_score>>
    /\ UNCHANGED handler_vars

CallFlatten ==
    /\ call = "depth"
    /\ graph' = Flatten(tree, prefix)
    /\ call' = "flat"
    /\ UNCHANGED <<tree, prefix, depth, tree2, prefix2, graph2,
                   depth_ref, depth_comp, match_score>>
    /\ UNCHANGED handler_vars

CoreNext == CallDepth \/ CallFlatten
SpecCore == CoreInit /\ [][CoreNext]_vars

(***************************************************************************)
(* Two flattening passes, as on lines 137 and 145, over any two trees and  *)
(* any two prefixes.                                                       *)
(***************************************************************************)
PairInit ==
    /\ HandlerIdle
    /\ call = "start"
    /\ tree \in PairTrees /\ prefix \in PairPrefixes
    /\ tree2 \in PairTrees /\ prefix2 \in PairPrefixes
    /\ depth = 0 /\ graph = NoGraph /\ graph2 = NoGraph
    /\ ScoreIdle

FlattenFirst ==
    /\ call = "start"
    /\ graph' = Flatten(tree, prefix)
    /\ call' = "first"
    /\ UNCHANGED <<tree, prefix, depth, tree2, prefix2, graph2,
                   depth_ref, depth_comp, match_score>>
    /\ UNCHANGED handler_vars

FlattenSecond ==
    /\ call = "first"
    /\ graph2' = Flatten(tree2, prefix2)
    /\ call' = "both"
    /\ UNCHANGED <<tree, prefix, depth, graph, tree2, prefix2,
                   depth_ref, depth_comp, match_score>>
    /\ UNCHANGED handler_vars

PairNext == FlattenFirst \/ FlattenSecond
SpecPair == PairInit /\ [][PairNext]_vars

(***************************************************************************)
(* The score of lines 107-110 for the depths lines 104-105 can return.     *)
(* get_tree_depth gives n for a chain of n nodes, so every pair of         *)
(* positive depths is one the handler can meet.                            *)
(***************************************************************************)
ScoreInit ==
    /\ HandlerIdle
    /\ call = "start"
    /\ tree = EmptyDict /\ prefix = <<>> /\ depth = 0 /\ graph = NoGraph
    /\ tree2 = EmptyDict /\ prefix2 = <<>> /\ graph2 = NoGraph
    /\ depth_ref \in 1..MaxDepth /\ depth_comp \in 1..MaxDepth
    /\ match_score = NoScore

ComputeScore ==
    /\ call = "start"
    /\ match_score' = MatchScore(depth_ref, depth_comp)
    /\ call' = "scored"
    /\ UNCHANGED <<tree, prefix, depth, graph, tree2, prefix2, graph2,
                   depth_ref, depth_comp>>
    /\ UNCHANGED handler_vars

ScoreNext == ComputeScore
SpecScore == ScoreInit /\ [][ScoreNext]_vars

(***************************************************************************)
(* The Analyze handler, lines 85-152.  The script runs top to bottom once  *)
(* per button press; it is cut here at its two blocking requests.          *)
(***************************************************************************)
S_url == <<"h","t","t","p",":","/","/","x">>

StatusOk == 200
ErrorStatuses == {404, 500}

\* resp.json(): text that is no JSON (json() raises), a JSON array (it has
\* no .get), or a JSON object
InvalidBody == [kind |-> "invalid"]
ListBody == [kind |-> "list"]
DictBody(t) == [kind |-> "dict", val |-> t]

Responses ==
    {[is_none |-> FALSE, status_code |-> StatusOk, body |-> b]
        : b \in {InvalidBody, ListBody} \cup {DictBody(t) : t \in ParsedTrees}}
    \cup {[is_none |-> FALSE, status_code |-> c, body |-> b]
        : c \in ErrorStatuses, b \in {InvalidBody, DictBody(EmptyDict)}}

\* line 97, a bug that accepts one good response
EitherOk(r1, r2) == r1.status_code = StatusOk \/ r2.status_code = StatusOk
\* line 97: resp_ref.status_code == 200 and resp_comp.status_code == 200
BothOk(r1, r2) == r1.status_code = StatusOk /\ r2.status_code = StatusOk

\* the sidebar text input is edited (line 14); the button is not pressed
EditUrl ==
    /\ pc = "idle"
    /\ \E u \in {<<>>, S_url} : u # api_url /\ api_url' = u
    /\ UNCHANGED <<pc, resp_ref, resp_comp, requests, core_calls, errors,
                   success, metrics, score_branch, graphs>>
    /\ UNCHANGED call_vars

\* lines 85-87: the button is pressed while api_url is empty
PressWithoutUrl ==
    /\ pc = "idle"
    /\ Len(api_url) = 0
    /\ errors' = Append(errors, "paste_url")
    /\ pc' = "done"
    /\ UNCHANGED <<api_url, resp_ref, resp_comp, requests, core_calls,
                   success, metrics, score_branch, graphs>>
    /\ UNCHANGED call_vars

\* lines 85-91: the button is pressed with a URL
PressAnalyze ==
    /\ pc = "idle"
    /\ Len(api_url) > 0
    /\ pc' = "post_ref"
    /\ UNCHANGED <<api_url, resp_ref, resp_comp, requests, core_calls, errors,
                   success, metrics, score_branch, graphs>>
    /\ UNCHANGED call_vars

\* line 94; a request that raises is caught on lines 151-152
PostRef ==
    /\ pc = "post_ref"
    /\ requests' = Append(requests, "ref")
    /\ \/ /\ errors' = Append(errors, "connection_failed")
          /\ pc' = "done"
          /\ UNCHANGED resp_ref
       \/ /\ \E r \in Responses : resp_ref' = r
          /\ pc' = "post_comp"
          /\ UNCHANGED errors
    /\ UNCHANGED <<api_url, resp_comp, core_calls, success, metrics,
                   score_branch, graphs>>
    /\ UNCHANGED call_vars

\* line 95; a request that raises is caught on lines 151-152
PostComp ==
    /\ pc = "post_comp"
    /\ requests' = Append(requests, "comp")
    /\ \/ /\ errors' = Append(errors, "connection_failed")
          /\ pc' = "done"
          /\ UNCHANGED resp_comp
       \/ /\ \E r \in Responses : resp_comp' = r
          /\ pc' = "respond"
          /\ UNCHANGED errors
    /\ UNCHANGED <<api_url, resp_ref, core_calls, success, metrics,
                   score_branch, graphs>>
    /\ UNCHANGED call_vars

\* lines 104-120: the scores shown
Metrics(data_ref, data_comp) ==
    LET d_ref == get_tree_depth(data_ref)
        d_comp == get_tree_depth(data_comp)
    IN [shown |-> TRUE,
        depth_ref |-> d_ref,
        depth_comp |-> d_comp,
        delta |-> d_comp - d_ref,
        match_score |-> MatchScore(d_ref, d_comp)]

\* lines 97-152, what the run shows once both responses are in
Outcome(r1, r2) ==
    LET quiet == [errors |-> <<>>, success |-> FALSE, core_calls |-> <<>>,
                  metrics |-> NoMetrics, score_branch |-> "none", graphs |-> <<>>]
    IN IF ~BothOk(r1, r2)
       THEN [quiet EXCEPT !.errors = <<"server_error">>]                \* line 150
       ELSE IF r1.body.kind = "invalid" \/ r2.body.kind = "invalid"
       THEN [quiet EXCEPT !.errors = <<"connection_failed">>]           \* 98-99, 152
       ELSE IF r1.body.kind # "dict"
       THEN [quiet EXCEPT !.success = TRUE,                             \* 101, 104
                          !.core_calls = <<"depth_ref">>,
                          !.errors = <<"connection_failed">>]
       ELSE IF r2.body.kind # "dict"
       THEN [quiet EXCEPT !.success = TRUE,                             \* 101, 105
                          !.core_calls = <<"depth_ref", "depth_comp">>,
                          !.errors = <<"connection_failed">>]
       ELSE LET m == Metrics(r1.body.val, r2.body.val)
            IN [errors |-> <<>>,
                success |-> TRUE,
                core_calls |-> <<"depth_ref", "depth_comp", "graph_ref", "graph_comp">>,
                metrics |-> m,
                score_branch |-> IF m.depth_ref > 0 THEN "ratio" ELSE "guard",
                graphs |-> <<Flatten(r1.body.val, S_ref),               \* 137-139
                             Flatten(r2.body.val, S_comp)>>]            \* 145-147

Respond ==
    /\ pc = "respond"
    /\ LET o == Outcome(resp_ref, resp_comp)
       IN /\ errors' = errors \o o.errors
          /\ success' = o.success
          /\ core_calls' = o.core_calls
          /\ metrics' = o.metrics
          /\ score_branch' = o.score_branch
          /\ graphs' = o.graphs
    /\ pc' = "done"
    /\ UNCHANGED <<api_url, resp_ref, resp_comp, requests>>
    /\ UNCHANGED call_vars

\* the next interaction reruns the script: the page is drawn afresh
Rerun ==
    /\ pc = "done"
    /\ pc' = "idle"
    /\ resp_ref' = None /\ resp_comp' = None
    /\ requests' = <<>> /\ core_calls' = <<>> /\ errors' = <<>>
    /\ success' = FALSE /\ metrics' = NoMetrics /\ score_branch' = "none"
    /\ graphs' = <<>>
    /\ UNCHANGED api_url
    /\ UNCHANGED call_vars

Init ==
    /\ HandlerIdle
    /\ call = "none"
    /\ tree = EmptyDict /\ prefix = <<>> /\ depth = 0 /\ graph = NoGraph
    /\ tree2 = EmptyDict /\ prefix2 = <<>> /\ graph2 = NoGraph
    /\ ScoreIdle

Next ==
    \/ EditUrl
    \/ PressWithoutUrl
    \/ PressAnalyze
    \/ PostRef
    \/ PostComp
    \/ Respond
    \/ Rerun

Spec == Init /\ [][Next]_vars

(***************************************************************************)
(* Vocabulary of the properties: the tree seen as a set of positions.      *)
(* A path is the sequence of zero-based child indices from the root.       *)
(***************************************************************************)
Kids(node) == Get(node, "children", <<>>)
IsLeafTagged(node) == "type" \in DOMAIN node /\ node["type"] = S_leaf
Front(path) == SubSeq(path, 1, Len(path) - 1)
Reverse(seq) == [i \in DOMAIN seq |-> seq[Len(seq) + 1 - i]]
SetMax(S) == CHOOSE m \in S : \A x \in S : x <= m

RECURSIVE PreorderPaths(_, _), ChildPaths(_, _, _)
\* the paths of all nodes under (and including) the node at `path`, parents
\* before children, children left to right
PreorderPaths(node, path) == <<path>> \o ChildPaths(Kids(node), 1, path)
ChildPaths(children, k, path) ==
    IF k > Len(children) THEN <<>>
    ELSE PreorderPaths(children[k], Append(path, k - 1))
         \o ChildPaths(children, k + 1, path)

RECURSIVE NodeAt(_, _)
NodeAt(node, path) ==
    IF path = <<>> THEN node
    ELSE NodeAt(Kids(node)[path[1] + 1], SubSeq(path, 2, Len(path)))

\* the tree with everything but its shape removed
RECURSIVE Skeleton(_)
Skeleton(node) == "children" :> [i \in DOMAIN Kids(node) |-> Skeleton(Kids(node)[i])]

Paths == PreorderPaths(tree, <<>>)
ParentPos(k) == CHOOSE j \in DOMAIN Paths : Paths[j] = Front(Paths[k])
Ids(g) == {g.nodes[i].id : i \in DOMAIN g.nodes}
Links(g) == {<<g.edges[i].source, g.edges[i].target>> : i \in DOMAIN g.edges}
DepthDone == call \in {"depth", "flat"}
FlatDone == call = "flat"

(***************************************************************************)
(* C1: get_tree_depth is 1 on a node tagged "leaf" (children or not), 1 on *)
(* a node without children, and otherwise 1 + the greatest depth among the *)
(* children; reordering the children does not change it.                   *)
(***************************************************************************)
DepthContractAt(node, d) ==
    /\ IsLeafTagged(node) => d = 1
    /\ Len(Kids(node)) = 0 => d = 1
    /\ (~IsLeafTagged(node) /\ Len(Kids(node)) > 0) =>
          /\ d = 1 + SetMax({get_tree_depth(Kids(node)[i]) : i \in DOMAIN Kids(node)})
          /\ d = get_tree_depth([node EXCEPT !["children"] = Reverse(Kids(node))])

C1_DepthContract ==
    DepthDone =>
        /\ DepthContractAt(tree, depth)
        /\ \A k \in DOMAIN Paths :
              DepthContractAt(NodeAt(tree, Paths[k]), get_tree_depth(NodeAt(tree, Paths[k])))

\* C1, reached: a root whose first child is deeper than its second has been measured
C1_Witness ==
    /\ call = "depth"
    /\ ~IsLeafTagged(tree)
    /\ Len(Kids(tree)) >= 2
    /\ get_tree_depth(Kids(tree)[1]) > get_tree_depth(Kids(tree)[2])
    /\ depth = 3

(***************************************************************************)
(* C2: get_tree_depth never returns less than 1; the handler's reference   *)
(* depth is never 0 and the branch match_score = 0 of line 110 never runs. *)
(***************************************************************************)
C2_DepthAtLeastOne ==
    /\ metrics.shown => (metrics.depth_ref >= 1 /\ metrics.depth_comp >= 1)
    /\ score_branch # "guard"

\* C2, reached: a run on a reference tree without type or children has shown its metrics
C2_Witness ==
    /\ pc = "done"
    /\ metrics.shown
    /\ resp_ref.body.val = EmptyDict
    /\ score_branch = "ratio"

(***************************************************************************)
(* C3: one call of get_agraph_data on empty lists appends one VisualNode   *)
(* per node of the tree (children of "leaf" nodes included) and one edge   *)
(* per non-root node, from its parent's id to its own id, none for the     *)
(* root: edges = nodes - 1.  This holds for the empty prefix too.          *)
(***************************************************************************)
C3_OneNodeOneEdge ==
    FlatDone =>
        /\ Len(graph.nodes) = Len(Paths)
        /\ Len(graph.edges) = Len(graph.nodes) - 1
        /\ \A k \in 2..Len(Paths) :
              /\ graph.edges[k - 1].source = graph.nodes[ParentPos(k)].id
              /\ graph.edges[k - 1].target = graph.nodes[k].id
              /\ Cardinality({i \in DOMAIN graph.edges :
                                 graph.edges[i].target = graph.nodes[k].id}) = 1
        /\ \A i \in DOMAIN graph.edges : graph.edges[i].target # graph.nodes[1].id

\* C3, reached: a node tagged "leaf" with two children has been flattened with the empty prefix
C3_Witness ==
    /\ FlatDone
    /\ prefix = <<>>
    /\ IsLeafTagged(tree)
    /\ Len(Kids(tree)) >= 2
    /\ Len(graph.edges) >= 2

(***************************************************************************)
(* C4: the ids produced by one call are pairwise distinct.                 *)
(***************************************************************************)
C4_IdsDistinct ==
    FlatDone =>
        \A i, j \in DOMAIN graph.nodes :
            i # j => graph.nodes[i].id # graph.nodes[j].id

\* C4, reached: a root with eleven or more children, the second with a child, has been flattened
C4_Witness ==
    /\ FlatDone
    /\ Len(Kids(tree)) >= 11
    /\ Len(Kids(Kids(tree)[2])) = 1
    /\ Len(graph.nodes) >= 13

(***************************************************************************)
(* C5, as claimed: two calls with different prefixes never share an id.    *)
(***************************************************************************)
C5_AnyTwoPrefixesDisjoint ==
    (call = "both" /\ prefix # prefix2) => Ids(graph) \cap Ids(graph2) = {}

\* q is p followed by "_0" and then nothing, or more text starting with "_"
Extends(q, p) ==
    /\ Len(q) >= Len(p) + 2
    /\ SubSeq(q, 1, Len(p)) = p
    /\ q[Len(p) + 1] = "_"
    /\ q[Len(p) + 2] = "0"
    /\ (Len(q) > Len(p) + 2 => q[Len(p) + 3] = "_")

(***************************************************************************)
(* C5, amended: two calls with different prefixes share no id provided     *)
(* neither prefix is the other one followed by "_0" and then nothing or    *)
(* more text starting with "_" (the ids of the other tree's nodes begin    *)
(* that way).  "ref" and "comp" satisfy the proviso.                       *)
(***************************************************************************)
C5_UnrelatedPrefixesDisjoint ==
    (call = "both" /\ prefix # prefix2
        /\ ~Extends(prefix, prefix2) /\ ~Extends(prefix2, prefix))
    => Ids(graph) \cap Ids(graph2) = {}

\* C5, reached: the same tree has been flattened with "ref" and with "comp"
C5_Witness ==
    /\ call = "both"
    /\ prefix = S_ref /\ prefix2 = S_comp
    /\ tree = tree2
    /\ Len(graph.nodes) >= 3 /\ Len(graph2.nodes) >= 3

(***************************************************************************)
(* C6: the id depends on the prefix and the position only: "<prefix>_0"    *)
(* for the root, "P_i" for the child at zero-based index i of the node     *)
(* with id P.  A tree of the same shape with every text, relation and type *)
(* removed gets the same ids and the same edges.                           *)
(***************************************************************************)
C6_IdFromPosition ==
    FlatDone =>
        /\ graph.nodes[1].id = prefix \o <<"_", "0">>
        /\ \A k \in 2..Len(graph.nodes) :
              graph.nodes[k].id =
                  graph.nodes[ParentPos(k)].id \o <<"_">>
                  \o IntToStr(Paths[k][Len(Paths[k])])
        /\ LET bare == Flatten(Skeleton(tree), prefix)
           IN /\ [i \in DOMAIN bare.nodes |-> bare.nodes[i].id]
                    = [i \in DOMAIN graph.nodes |-> graph.nodes[i].id]
              /\ Links(bare) = Links(graph)

\* C6, reached: a tree with texts and relations has been flattened; its second child is ref_0_1
C6_Witness ==
    /\ FlatDone
    /\ prefix = S_ref
    /\ "text" \in DOMAIN tree /\ "relation" \in DOMAIN tree
    /\ Len(Kids(tree)) >= 2
    /\ graph.nodes[3].id = <<"r","e","f","_","0","_","1">>

(***************************************************************************)
(* C7: for depths r >= 1 and c >= 1 the match score is                     *)
(* min(100, floor(c * 100 / r)).                                           *)
(***************************************************************************)
C7_ScoreIsFloorOfPercent ==
    call = "scored" =>
        match_score = Min(100, (depth_comp * 100) \div depth_ref)

\* The styling of the k-th VisualNode against the tree node it was made
\* from.  leaf_title and internal_title select the tooltip rule compared.
StyleAt(k, leaf_title, internal_title) ==
    LET node == NodeAt(tree, Paths[k])
        v == graph.nodes[k]
        text == Get(node, "text", <<>>)
        relation == Get(node, "relation", S_span)
    IN IF Get(node, "type", S_span) = S_leaf
       THEN /\ v.label = IF Len(text) <= 15 THEN text
                         ELSE SubSeq(text, 1, 15) \o <<".", ".", ".">>
            /\ v.size = 25
            /\ v.color = "#00C853"
            /\ v.title = IF leaf_title = "text" \/ "text" \in DOMAIN node
                         THEN text ELSE StrUpper(relation)
       ELSE /\ v.label = StrUpper(relation)
            /\ v.size = 15
            /\ v.color = "#2962FF"
            /\ v.title = IF "text" \in DOMAIN node THEN text
                         ELSE IF internal_title = "relation" THEN relation
                         ELSE StrUpper(relation)

(***************************************************************************)
(* C8, as claimed: a "leaf" node gets its text as label, cut to 15         *)
(* characters plus "..." when longer, the large size, the leaf colour and  *)
(* its full text as tooltip; any other node gets its relation upper-cased  *)
(* as label, the small size, the internal colour and as tooltip its text   *)
(* if present, else its relation.                                          *)
(***************************************************************************)
C8_TooltipTextElseRelation ==
    FlatDone => \A k \in DOMAIN graph.nodes : StyleAt(k, "text", "relation")

(***************************************************************************)
(* C8, amended: label, size and colour as claimed; the tooltip of every    *)
(* node, leaf or not, is its text if the node has a text key, and          *)
(* otherwise its relation upper-cased ("SPAN" when it has no relation).    *)
(***************************************************************************)
C8_TooltipTextElseUpperRelation ==
    FlatDone => \A k \in DOMAIN graph.nodes : StyleAt(k, "text or RELATION", "RELATION")

\* C8, reached: a leaf with a text longer than 15 characters above an internal node has been flattened
C8_Witness ==
    /\ FlatDone
    /\ IsLeafTagged(tree)
    /\ Len(Get(tree, "text", <<>>)) > 15
    /\ Len(graph.nodes[1].label) = 18
    /\ \E k \in DOMAIN graph.nodes :
          /\ ~IsLeafTagged(NodeAt(tree, Paths[k]))
          /\ graph.nodes[k].label = <<"C","A","U","S","E">>

(***************************************************************************)
(* C9: nodes with missing keys are defaulted, never rejected: a missing    *)
(* type counts as internal, missing children as no children, and a node    *)
(* with neither type nor children has depth 1 and flattens to exactly one  *)
(* internal VisualNode and no edge.                                        *)
(***************************************************************************)
C9_MissingKeysDefaulted ==
    /\ DepthDone =>
          /\ depth >= 1
          /\ ("type" \notin DOMAIN tree /\ "children" \notin DOMAIN tree) => depth = 1
          /\ ("type" \notin DOMAIN tree /\ Len(Kids(tree)) > 0) => depth > 1
    /\ FlatDone =>
          /\ Len(graph.nodes) >= 1
          /\ ("type" \notin DOMAIN tree /\ "children" \notin DOMAIN tree) =>
                /\ Len(graph.nodes) = 1
                /\ graph.nodes[1].color = "#2962FF"
                /\ graph.nodes[1].size = 15
                /\ graph.edges = <<>>
          /\ \A k \in DOMAIN graph.nodes :
                LET node == NodeAt(tree, Paths[k])
                IN /\ "type" \notin DOMAIN node =>
                         /\ graph.nodes[k].color = "#2962FF"
                         /\ graph.nodes[k].label = StrUpper(Get(node, "relation", S_span))
                   /\ "children" \notin DOMAIN node =>
                         /\ get_tree_depth(node) = 1
                         /\ \A i \in DOMAIN graph.edges :
                               graph.edges[i].source # graph.nodes[k].id
                   /\ ("text" \notin DOMAIN node /\ IsLeafTagged(node)) =>
                         graph.nodes[k].label = <<>>

\* C9, reached: the empty dict has been measured and flattened
C9_Witness ==
    /\ FlatDone
    /\ tree = EmptyDict
    /\ depth = 1
    /\ Len(graph.nodes) = 1
    /\ graph.nodes[1].label = <<"S","P","A","N">>

(***************************************************************************)
(* C10: in one run each request is sent at most once, reference first,     *)
(* without retry; the core functions run only after two 200 responses;     *)
(* and when a request fails or a response is not 200 the run ends with     *)
(* exactly one error report and no success message, metric or graph.       *)
(***************************************************************************)
RunFailed ==
    \/ resp_ref.is_none \/ resp_comp.is_none
    \/ resp_ref.status_code # 200 \/ resp_comp.status_code # 200

C10_OneShotRequests ==
    /\ requests \in {<<>>, <<"ref">>, <<"ref", "comp">>}
    /\ core_calls # <<>> =>
          /\ requests = <<"ref", "comp">>
          /\ ~resp_ref.is_none /\ ~resp_comp.is_none
          /\ resp_ref.status_code = 200 /\ resp_comp.status_code = 200
    /\ (pc = "done" /\ requests # <<>> /\ RunFailed) =>
          /\ Len(errors) = 1
          /\ ~success
          /\ ~metrics.shown
          /\ graphs = <<>>
          /\ core_calls = <<>>

\* C10, reached: a run whose compared response was a 500 ended with one error
C10_Witness ==
    /\ pc = "done"
    /\ requests = <<"ref", "comp">>
    /\ ~resp_ref.is_none /\ ~resp_comp.is_none
    /\ resp_ref.status_code = 200 /\ resp_ref.body.kind = "dict"
    /\ resp_comp.status_code = 500 /\ resp_comp.body.kind = "dict"
    /\ errors = <<"server_error">>
====
